---- MODULE Spec2Model ----
(***************************************************************************)
(* Usage tracking and quota enforcement of commit-sensei's generate flow   *)
(* (src/generate-commit.js): loadUsage, saveUsage, resetUsageIfNeeded and   *)
(* the parts of main() that read, check, increment and persist the usage   *)
(* record kept in .genai-usage.json.                                       *)
(*                                                                         *)
(* Each invocation of the tool is a process: it loads the record, runs the *)
(* lazy daily reset (which saves), checks the daily limit, calls the AI    *)
(* service, and on a response increments and saves the record.  The usage  *)
(* file and the wall clock are shared by all invocations.                  *)
(***************************************************************************)
EXTENDS Integers, Sequences, FiniteSets, TLC

VARIABLES
    now,      \* Date.now(), in milliseconds
    file,     \* content of .genai-usage.json
    pc,       \* pc[p]: position of invocation p in main()
    usage,    \* usage[p]: the local `usage` of main()
    outcome,  \* outcome[p]: how the last invocation of p ended
    loaded,   \* loaded[p]: what loadUsage() returned to p (history)
    resetAt,  \* resetAt[p]: the `now` that resetUsageIfNeeded read
    genLog,   \* times of the generateContent calls of the last minute (history)
    budget,   \* generateContent calls still explored
    writeFailed,  \* some writeFileAsync of saveUsage has thrown (history)
    sinceStart    \* responses received since the file's timestamp was set (history)

vars == <<now, file, pc, usage, outcome, loaded, resetAt, genLog, budget,
          writeFailed, sinceStart>>

----------------------------------------------------------------------------
(* Bounds of the exploration *)

MaxMinutes == 1
MaxTokenCount == 500
MaxCalls == 3

(* Program constants *)

RPD == 1500
RPM == 15
Minute == 60 * 1000
oneDay == 24 * 60 * 60 * 1000

Procs == {1, 2}

----------------------------------------------------------------------------
(* JavaScript values.  Numbers are the integers; the three non-numbers a    *)
(* usage field can hold are encoded below zero (counts and timestamps are   *)
(* never negative).                                                         *)

Undefined == -1
NaN == -2
Null == -3

IsNumber(v) == v >= 0

\* ToNumber: undefined -> NaN, null -> 0
ToNumber(v) == IF v = Undefined THEN NaN ELSE IF v = Null THEN 0 ELSE v

\* a + b on numbers / undefined / null
Add(a, b) ==
    IF ToNumber(a) = NaN \/ ToNumber(b) = NaN THEN NaN
    ELSE ToNumber(a) + ToNumber(b)

\* a - b > c : false as soon as an operand is NaN
SubGt(a, b, c) ==
    /\ ToNumber(a) # NaN
    /\ ToNumber(b) # NaN
    /\ ToNumber(a) - ToNumber(b) > c

\* a >= b : false as soon as an operand is NaN
Ge(a, b) ==
    /\ ToNumber(a) # NaN
    /\ ToNumber(b) # NaN
    /\ ToNumber(a) >= ToNumber(b)

----------------------------------------------------------------------------
(* The usage record in memory and on disk *)

\* obj = FALSE is the value `undefined` (loadUsage fell into its catch)
Record(r, t, ts) == [obj |-> TRUE, requests |-> r, tokens |-> t, timestamp |-> ts]
NoRecord == [obj |-> FALSE, requests |-> Undefined, tokens |-> Undefined,
             timestamp |-> Undefined]

\* File contents: no file, bytes JSON.parse rejects, or a JSON object.  A JSON
\* object holds numbers and null; a missing key reads as undefined.
Absent == [kind |-> "absent", requests |-> Undefined, tokens |-> Undefined,
           timestamp |-> Undefined]
Garbage == [kind |-> "garbage", requests |-> Undefined, tokens |-> Undefined,
            timestamp |-> Undefined]
Json(r, t, ts) == [kind |-> "json", requests |-> r, tokens |-> t, timestamp |-> ts]

\* JSON.stringify of one field: NaN is written as null, undefined is left out
StringifyField(v) == IF v = NaN THEN Null ELSE v

\* JSON.stringify(usage, null, 2)
JSONStringify(u) ==
    Json(StringifyField(u.requests), StringifyField(u.tokens),
         StringifyField(u.timestamp))

\* JSON.parse(data)
JSONParse(f) == Record(f.requests, f.tokens, f.timestamp)

\* loadUsage()
loadUsage(f, t) ==
    IF f.kind = "absent" THEN Record(0, 0, t)
    ELSE IF f.kind = "garbage" THEN NoRecord
    ELSE JSONParse(f)

\* variant: a failed write leaves a truncated file behind
saveUsageTruncates(f, u, ok) == IF ok THEN JSONStringify(u) ELSE Garbage

\* saveUsage(usage): a failed write is logged and leaves the file as it was
saveUsage(f, u, ok) == IF ok THEN JSONStringify(u) ELSE f

\* variant: the condition written with >=
ExpiredInclusive(u, t) == SubGt(t, u.timestamp, oneDay - 1)

\* the condition of resetUsageIfNeeded
Expired(u, t) == SubGt(t, u.timestamp, oneDay)

\* variant: the reset forgets to zero the request count
resetTimestampOnly(u, t) ==
    IF Expired(u, t) THEN [u EXCEPT !.timestamp = t] ELSE u

\* the assignments of resetUsageIfNeeded
resetUsageIfNeeded(u, t) ==
    IF Expired(u, t) THEN [u EXCEPT !.requests = 0, !.timestamp = t] ELSE u

\* variant: the limit check reads the token count
DeniedOnTokens(u) == Ge(u.tokens, RPD)

\* variant: the limit check written with >
DeniedAbove(u) == Ge(u.requests, RPD + 1)

\* the daily limit check of main()
Denied(u) == Ge(u.requests, RPD)

\* variant: the increment counts the request twice
RecordSuccessTwice(u, tokens) ==
    [u EXCEPT !.requests = Add(u.requests, 2), !.tokens = Add(u.tokens, tokens)]

\* the success increment of main()
RecordSuccess(u, tokens) ==
    [u EXCEPT !.requests = Add(u.requests, 1), !.tokens = Add(u.tokens, tokens)]

----------------------------------------------------------------------------
(* What the collaborators of main() can answer *)

\* result.response.tokens of a response: absent, or a count
ResponseTokens == {Undefined, 250}

\* model.generateContent(prompt): throws, resolves without a response, or
\* resolves with a response carrying `tokens`
Responses ==
    {[kind |-> "throw", tokens |-> Undefined], [kind |-> "none", tokens |-> Undefined]}
    \cup {[kind |-> "response", tokens |-> t] : t \in ResponseTokens}

\* variant: usage is recorded whether or not a response came back
FileAfterGenerationAlways(f, u, resp, ok) ==
    saveUsage(f, [u EXCEPT !.requests = Add(u.requests, 1)], ok)

\* the file after the block that follows generateContent
FileAfterGeneration(f, u, resp, ok) ==
    IF resp.kind = "response" THEN saveUsage(f, RecordSuccess(u, resp.tokens), ok)
    ELSE f

\* writeFileAsync: the write succeeds, or it throws
WriteOutcomes == <<TRUE, FALSE>>

\* the generateContent calls of the minute that ends at t
LastMinute(log, t) == SelectSeq(log, LAMBDA c : t - c < Minute)

\* the readings of the clock that are followed: up to MaxMinutes minutes into
\* the first day and into the second
ClockValues == {d * oneDay + m * Minute : d \in 0..1, m \in 0..MaxMinutes}

\* process.exit(1) / uncaught rejection / normal end
ExitStatus(o) ==
    IF o \in {"quota", "config", "nodiff", "generror", "commiterror", "uncaught"}
    THEN 1 ELSE 0

\* whether invocation p has called generateContent
Called(p) ==
    \/ pc[p] \in {"generating", "confirm"}
    \/ outcome[p] \in {"generror", "noresponse", "committed", "aborted", "commiterror"}

----------------------------------------------------------------------------
(* The usage files an invocation can find *)

InitFiles ==
    {Absent, Garbage, Json(Undefined, Undefined, Undefined),
     Json(3, Null, 0), Json(RPD - 1, 0, 0), Json(RPD, 250, 0)}

InitWith(files, calls) ==
    /\ now = 0
    /\ file \in files
    /\ pc = [p \in Procs |-> "idle"]
    /\ usage = [p \in Procs |-> NoRecord]
    /\ outcome = [p \in Procs |-> "none"]
    /\ loaded = [p \in Procs |-> NoRecord]
    /\ resetAt = [p \in Procs |-> Undefined]
    /\ genLog = <<>>
    /\ budget = calls
    /\ writeFailed = FALSE
    /\ sinceStart = IF file.kind = "json" /\ IsNumber(file.requests)
                    THEN file.requests ELSE 0

Init == InitWith(InitFiles, Cardinality(Procs))

InitFresh == InitWith({Absent}, RPM + 1)

\* no usage file yet, or the file a day of 1499 responses has left
InitSeq == InitWith({Absent, Json(RPD - 1, 0, 0)}, MaxCalls)

\* the responses since the window start, after a step that takes the file
\* from f to g and receives a response or not
SinceStartAfter(f, g, n, response) ==
    IF g.kind # f.kind \/ g.timestamp # f.timestamp THEN 0
    ELSE IF response THEN n + 1 ELSE n

----------------------------------------------------------------------------
(* main() *)

\* let usage = await loadUsage();
LoadUsage(p) ==
    /\ pc[p] = "idle"
    /\ usage' = [usage EXCEPT ![p] = loadUsage(file, now)]
    /\ loaded' = [loaded EXCEPT ![p] = loadUsage(file, now)]
    /\ pc' = [pc EXCEPT ![p] = "loaded"]
    /\ UNCHANGED <<now, file, outcome, resetAt, genLog, budget, writeFailed, sinceStart>>

\* await resetUsageIfNeeded(usage);  `usage.timestamp` of undefined throws a
\* TypeError nothing catches: main() rejects and the process ends
ResetUsageIfNeeded(p) ==
    /\ pc[p] = "loaded"
    /\ IF ~usage[p].obj
       THEN /\ pc' = [pc EXCEPT ![p] = "done"]
            /\ outcome' = [outcome EXCEPT ![p] = "uncaught"]
            /\ UNCHANGED <<usage, file, resetAt, writeFailed, sinceStart>>
       ELSE /\ resetAt' = [resetAt EXCEPT ![p] = now]
            /\ usage' = [usage EXCEPT ![p] = resetUsageIfNeeded(usage[p], now)]
            /\ \E i \in 1..2 :
                   /\ file' = saveUsage(file, usage'[p], WriteOutcomes[i])
                   /\ writeFailed' = (writeFailed \/ ~WriteOutcomes[i])
            /\ sinceStart' = SinceStartAfter(file, file', sinceStart, FALSE)
            /\ pc' = [pc EXCEPT ![p] = "reset"]
            /\ UNCHANGED outcome
    /\ UNCHANGED <<now, loaded, genLog, budget>>

\* if (usage.requests >= RATE_LIMITS.RPD) exit(1); load the configuration,
\* read the staged diff, call model.generateContent(prompt)
CheckAdmission(p) ==
    /\ pc[p] = "reset"
    /\ IF Denied(usage[p])
       THEN /\ pc' = [pc EXCEPT ![p] = "done"]
            /\ outcome' = [outcome EXCEPT ![p] = "quota"]
            /\ UNCHANGED <<genLog, budget>>
       ELSE \/ /\ \E o \in {"config", "nodiff"} :
                      outcome' = [outcome EXCEPT ![p] = o]
               /\ pc' = [pc EXCEPT ![p] = "done"]
               /\ UNCHANGED <<genLog, budget>>
            \/ /\ budget > 0
               /\ budget' = budget - 1
               /\ genLog' = Append(genLog, now)
               /\ pc' = [pc EXCEPT ![p] = "generating"]
               /\ UNCHANGED outcome
    /\ UNCHANGED <<now, file, usage, loaded, resetAt, writeFailed, sinceStart>>

\* generateContent settles with resp: on a response the record is
\* incremented and saved; without one, or on a throw, the invocation ends
GenerationReturns(p, resp) ==
    /\ pc[p] = "generating"
    /\ resp.kind = "response" /\ IsNumber(resp.tokens) =>
           ~IsNumber(ToNumber(usage[p].tokens))
           \/ ToNumber(usage[p].tokens) + resp.tokens <= MaxTokenCount
    /\ \E i \in 1..2 :
           /\ file' = FileAfterGeneration(file, usage[p], resp, WriteOutcomes[i])
           /\ writeFailed' =
                  (writeFailed \/ (resp.kind = "response" /\ ~WriteOutcomes[i]))
    /\ sinceStart' = SinceStartAfter(file, file', sinceStart, resp.kind = "response")
    /\ IF resp.kind = "response"
       THEN /\ usage' = [usage EXCEPT ![p] = RecordSuccess(usage[p], resp.tokens)]
            /\ pc' = [pc EXCEPT ![p] = "confirm"]
            /\ UNCHANGED outcome
       ELSE /\ pc' = [pc EXCEPT ![p] = "done"]
            /\ outcome' = [outcome EXCEPT ![p] =
                              IF resp.kind = "throw" THEN "generror" ELSE "noresponse"]
            /\ UNCHANGED usage
    /\ UNCHANGED <<now, loaded, resetAt, genLog, budget>>

\* the edit and confirm prompts, then git commit (which may throw)
Confirm(p) ==
    /\ pc[p] = "confirm"
    /\ \E o \in {"committed", "aborted", "commiterror"} :
           outcome' = [outcome EXCEPT ![p] = o]
    /\ pc' = [pc EXCEPT ![p] = "done"]
    /\ UNCHANGED <<now, file, usage, loaded, resetAt, genLog, budget, writeFailed,
                   sinceStart>>

\* the process is gone; the next invocation starts from nothing
Exit(p) ==
    /\ pc[p] = "done"
    /\ pc' = [pc EXCEPT ![p] = "idle"]
    /\ usage' = [usage EXCEPT ![p] = NoRecord]
    /\ loaded' = [loaded EXCEPT ![p] = NoRecord]
    /\ outcome' = [outcome EXCEPT ![p] = "none"]
    /\ resetAt' = [resetAt EXCEPT ![p] = Undefined]
    /\ UNCHANGED <<now, file, genLog, budget, writeFailed, sinceStart>>

\* the clock moves on, by a minute or by a day
Tick(d) ==
    /\ now + d \in ClockValues
    /\ now' = now + d
    /\ genLog' = LastMinute(genLog, now')
    /\ UNCHANGED <<file, pc, usage, outcome, loaded, resetAt, budget, writeFailed,
                   sinceStart>>

Step(p) ==
    \/ LoadUsage(p)
    \/ ResetUsageIfNeeded(p)
    \/ CheckAdmission(p)
    \/ \E resp \in Responses : GenerationReturns(p, resp)
    \/ Confirm(p)

\* two invocations, which may overlap
Next ==
    \/ \E p \in Procs : Step(p)
    \/ \E d \in {Minute, oneDay} : Tick(d)

Spec == Init /\ [][Next]_vars

\* one invocation after the other, from a directory without a usage file
NextFresh ==
    \/ Step(1)
    \/ Exit(1)
    \/ \E d \in {Minute, oneDay} : Tick(d)

SpecFresh == InitFresh /\ [][NextFresh]_vars

\* one invocation after the other, MaxCalls generateContent calls
SpecSeq == InitSeq /\ [][NextFresh]_vars

----------------------------------------------------------------------------
(* Vocabulary of the properties *)

\* a record as the data model describes it: three numbers
ValidRecord(u) ==
    /\ u.obj
    /\ IsNumber(u.requests)
    /\ IsNumber(u.tokens)
    /\ IsNumber(u.timestamp)

\* invocation p is past resetUsageIfNeeded
PastReset(p) == usage[p].obj /\ pc[p] \in {"reset", "generating", "confirm", "done"}

\* invocation p has applied the success increment
Incremented(p) ==
    \/ pc[p] = "confirm"
    \/ outcome[p] \in {"committed", "aborted", "commiterror"}

\* invocation p is past the admission check and has not incremented
Checked(p) ==
    \/ pc[p] = "generating"
    \/ outcome[p] \in {"quota", "config", "nodiff", "generror", "noresponse"}

\* now - windowStart <= 24h, as JavaScript evaluates it
WithinWindow(u, t) ==
    /\ ToNumber(u.timestamp) # NaN
    /\ t - ToNumber(u.timestamp) <= oneDay

\* the token usage of a response, 0 when it carries none
TokensUsed(resp) == IF resp.tokens = Undefined THEN 0 ELSE resp.tokens

----------------------------------------------------------------------------
(* C1: an invocation whose record, after the lazy reset, has a request     *)
(* count of 1500 or more, whatever its token count, is denied: it ends     *)
(* with exit status 1 and has not called generateContent.                  *)
C1_DailyLimitDenies ==
    \A p \in Procs :
        (usage[p].obj /\ Checked(p) /\ Ge(usage[p].requests, RPD))
            => /\ pc[p] = "done"
               /\ outcome[p] = "quota"
               /\ ExitStatus(outcome[p]) = 1
               /\ ~Called(p)

C1_Witness ==
    \E p \in Procs :
        /\ outcome[p] = "quota"
        /\ usage[p].requests = RPD
        /\ usage[p].tokens = 250
        /\ WithinWindow(usage[p], now)

(* C2: no minute holds more than RPM = 15 generateContent calls.           *)
C2_PerMinuteLimit == Len(LastMinute(genLog, now)) <= RPM

(* C3: an invocation that loaded something other than a record of three    *)
(* numbers aborts without calling generateContent.                         *)
C3_InvalidFileAborts ==
    \A p \in Procs :
        (pc[p] # "idle" /\ ~ValidRecord(loaded[p])) => ~Called(p)

(* C4: starting from no usage file, the request and token counts in        *)
(* memory and on disk are always non-negative integers.                    *)
C4_CountsAreNumbers ==
    /\ file.kind = "json" => IsNumber(file.requests) /\ IsNumber(file.tokens)
    /\ \A p \in Procs :
           usage[p].obj => IsNumber(usage[p].requests) /\ IsNumber(usage[p].tokens)

(* C5: an invocation whose generateContent call throws or resolves without *)
(* a response writes nothing after its lazy reset: neither its admission   *)
(* step nor the failed return changes the usage file or its record.        *)
C5_FailureRecordsNothing ==
    [][\A p \in Procs :
          (\/ pc[p] = "reset" /\ pc'[p] # "reset"
           \/ pc[p] = "generating" /\ pc'[p] = "done")
              => file' = file /\ usage'[p] = usage[p]]_vars

C5_Witness ==
    \E p \in Procs :
        /\ outcome[p] = "generror"
        /\ ValidRecord(usage[p])
        /\ usage[p].requests > 0
        /\ file = JSONStringify(usage[p])

(* C6: a successful generation adds exactly 1 to requests and exactly the  *)
(* tokens used (0 when the response carries none) to tokens, leaves the    *)
(* timestamp alone, and that record is what a successful write persists.   *)
C6_SuccessIncrements ==
    [][\A p \in Procs : \A resp \in Responses :
          (resp.kind = "response" /\ ValidRecord(usage[p]) /\ GenerationReturns(p, resp))
              => /\ usage'[p] = Record(usage[p].requests + 1,
                                       usage[p].tokens + TokensUsed(resp),
                                       usage[p].timestamp)
                 /\ \E ok \in BOOLEAN : file' = saveUsage(file, usage'[p], ok)]_vars

(* C7: when now - timestamp > 24h at the reset, the record leaves the      *)
(* reset with requests = 0 and timestamp = now, and the admission check of *)
(* the same invocation reads that record: the invocation is not denied.    *)
C7_ExpiredWindowResets ==
    \A p \in Procs :
        (PastReset(p) /\ SubGt(resetAt[p], loaded[p].timestamp, oneDay))
            => /\ usage[p].timestamp = resetAt[p]
               /\ usage[p].requests = (IF Incremented(p) THEN 1 ELSE 0)
               /\ outcome[p] # "quota"

C7_Witness ==
    \E p \in Procs :
        /\ pc[p] = "generating"
        /\ loaded[p].requests = RPD
        /\ resetAt[p] - loaded[p].timestamp > oneDay
        /\ usage[p].requests = 0
        /\ usage[p].timestamp = resetAt[p]

(* C8: when now - timestamp <= 24h at the reset (24h exactly included),    *)
(* the reset leaves requests, tokens and timestamp as loaded.              *)
C8_WithinWindowUnchanged ==
    \A p \in Procs :
        (PastReset(p) /\ ~Incremented(p) /\ WithinWindow(loaded[p], resetAt[p]))
            => usage[p] = loaded[p]

C8_Witness ==
    \E p \in Procs :
        /\ pc[p] = "reset"
        /\ resetAt[p] - loaded[p].timestamp = oneDay
        /\ loaded[p].requests = RPD - 1
        /\ usage[p] = loaded[p]

(* C9: two overlapping invocations that loaded the same record, did not    *)
(* reset it and both incremented leave the file at most 1 request above    *)
(* what they loaded: the second save overwrites the first.                 *)
C9_LostUpdate ==
    \A p \in Procs : \A q \in Procs \ {p} :
        (/\ Incremented(p) /\ Incremented(q)
         /\ ValidRecord(loaded[p])
         /\ loaded[q] = loaded[p]
         /\ usage[p].timestamp = loaded[p].timestamp
         /\ usage[q].timestamp = loaded[q].timestamp
         /\ file.kind = "json")
            => /\ usage[p].requests = loaded[p].requests + 1
               /\ usage[q].requests = loaded[p].requests + 1
               /\ file.requests <= loaded[p].requests + 1

C9_Witness ==
    \E p \in Procs : \E q \in Procs \ {p} :
        /\ outcome[p] = "committed" /\ outcome[q] = "committed"
        /\ ValidRecord(loaded[p])
        /\ loaded[q] = loaded[p]
        /\ loaded[p].requests = RPD - 1
        /\ file = JSONStringify(usage[q])
        /\ file.requests = loaded[p].requests + 1

(* C10: the success increment is applied only to a record that is within   *)
(* its window at that moment, also when the clock has moved (here by no    *)
(* more than a minute) since the reset of the same invocation.             *)
C10_IncrementWithinWindow ==
    [][\A p \in Procs :
          (/\ ValidRecord(loaded[p])
           /\ now - resetAt[p] <= Minute
           /\ pc[p] = "generating" /\ pc'[p] = "confirm")
              => WithinWindow(usage[p], now)]_vars

C12_PersistedCountIsExact ==
    (~writeFailed /\ file.kind = "json" /\ \A p \in Procs : pc[p] \in {"idle", "done"})
        => /\ file.requests = sinceStart
           /\ file.requests <= RPD

C12_Witness ==
    /\ ~writeFailed
    /\ \A p \in Procs : pc[p] \in {"idle", "done"}
    /\ \E p \in Procs : outcome[p] = "quota"
    /\ file.kind = "json"
    /\ file.requests = RPD
    /\ sinceStart = RPD

====
